---- MODULE Spec2Model ----
(***************************************************************************)
(* Shopping-list manager (src/app.py): a Flask application over a SQLite   *)
(* store with three tables, shopping_list, category and item.              *)
(*                                                                         *)
(* Strings are sequences of one-character strings.  A JSON value and a     *)
(* SQLite value is a record tagged by its type: [t |-> "null"],            *)
(* [t |-> "str", v |-> <<...>>], [t |-> "num", v |-> n],                   *)
(* [t |-> "bool", v |-> b]; the numbers are integers.  A JSON request body *)
(* is a record whose DOMAIN is the set of keys present in the body.  A     *)
(* price, a REAL, is held as its number of thousandths: 1250 is 1.25.      *)
(*                                                                         *)
(* Of the constraints of the schema SQLite enforces NOT NULL, UNIQUE and   *)
(* AUTOINCREMENT (an id is never handed out twice).  The FOREIGN KEY       *)
(* clauses are declared, but get_db opens its connections without          *)
(* PRAGMA foreign_keys = ON, so no statement fails on them.                *)
(*                                                                         *)
(* An unhandled exception in a handler is the response 500; what the       *)
(* handler committed before it stays in the store, and a connection the    *)
(* handler had not closed yet stays open (no handler has a try/finally or  *)
(* a with block around its connection).                                    *)
(*                                                                         *)
(* In Spec, SpecFields, SpecPrices, SpecRestart and SpecNames the requests *)
(* are handled one at a time, each handler as one step.  In SpecThreads    *)
(* the server handles requests in threads, and a handler is a sequence of  *)
(* steps, one for each statement or transaction it runs on the database:   *)
(* a connection has the default isolation_level, so a SELECT runs outside  *)
(* any transaction and a transaction lasts from the first INSERT, UPDATE   *)
(* or DELETE to the commit.  While it lasts no other connection can write  *)
(* and every other connection reads the state committed before it, so a    *)
(* transaction is one step, at its commit.                                 *)
(***************************************************************************)
EXTENDS Integers, Sequences, FiniteSets, TLC

VARIABLES
    db,               \* the SQLite file: tables and AUTOINCREMENT counters
    _db_initialized,  \* the module-level flag of ensure_db
    init_db_calls,    \* how many times ensure_db has called init_db
    req,              \* the request handled last
    resp,             \* the response to it
    open_connections, \* the connections it opened and has not closed
    pending           \* per thread of the server, the request it is handling

vars == <<db, _db_initialized, init_db_calls, req, resp, open_connections, pending>>

----------------------------------------------------------------------------
(* Bounds of the model *)

\* AUTOINCREMENT ids handed out to rows of shopping_list (seed included)
MaxLists == 2
\* AUTOINCREMENT ids handed out to rows of item
MaxItems == 3
\* the same, in SpecFields
MaxFieldItems == 2
\* the same, in SpecPrices
MaxPriceItems == 3
\* init_db is called at most this many times, in SpecRestart
MaxInitCalls == 2
\* the longest name of a list, in SpecNames
MaxNameLen == 3
\* the threads of the server
MaxThreads == 2
\* the ids of item rows handed out, in SpecThreads
MaxThreadItems == 2

----------------------------------------------------------------------------
(* Values *)

Null == [t |-> "null"]
Str(s) == [t |-> "str", v |-> s]
Num(n) == [t |-> "num", v |-> n]
Bool(b) == [t |-> "bool", v |-> b]

\* Python truthiness of a JSON value: `val or ""`, `1 if data["checked"] else 0`
Truthy(val) ==
    CASE val.t = "null" -> FALSE
      [] val.t = "str"  -> val.v # <<>>
      [] val.t = "num"  -> val.v # 0
      [] val.t = "bool" -> val.v

\* dict.get(key): the value, or None when the key is absent
Get(data, key) == IF key \in DOMAIN data THEN data[key] ELSE Null

----------------------------------------------------------------------------
(* Strings *)

IsSpace(c) == c = " "

RECURSIVE LStrip(_)
LStrip(s) == IF s # <<>> /\ IsSpace(Head(s)) THEN LStrip(Tail(s)) ELSE s

RECURSIVE RStrip(_)
RStrip(s) ==
    IF s # <<>> /\ IsSpace(s[Len(s)]) THEN RStrip(SubSeq(s, 1, Len(s) - 1)) ELSE s

\* str.strip()
Strip(s) == RStrip(LStrip(s))

LowerChar(c) ==
    CASE c = "A" -> "a"
      [] c = "B" -> "b"
      [] c = "L" -> "l"
      [] c = "M" -> "m"
      [] c = "P" -> "p"
      [] c = "S" -> "s"
      [] OTHER   -> c

\* str.lower()
Lower(s) == [i \in 1..Len(s) |-> LowerChar(s[i])]

\* str.replace(old, new) for a one-character old and a new of length 0 or 1
RECURSIVE Replace(_, _, _)
Replace(s, old, new) ==
    IF s = <<>> THEN <<>>
    ELSE (IF Head(s) = old THEN new ELSE <<Head(s)>>) \o Replace(Tail(s), old, new)

\* Slugify without .replace("'", "")
SlugifyKeepsApostrophes(name) ==
    LET slug == Replace(Lower(name), " ", <<"-">>)
    IN  IF slug = <<>> THEN <<"l", "i", "s", "t">> ELSE slug

\* name.lower().replace(" ", "-").replace("'", ""), "list" when that is empty
Slugify(name) ==
    LET slug == Replace(Replace(Lower(name), " ", <<"-">>), "'", <<>>)
    IN  IF slug = <<>> THEN <<"l", "i", "s", "t">> ELSE slug

----------------------------------------------------------------------------
(* The store *)

Saturday == <<"S", "a", "t", "u", "r", "d", "a", "y">>
saturday == <<"s", "a", "t", "u", "r", "d", "a", "y">>

DefaultCategories == <<"Produce", "Dairy", "Bakery", "Frozen", "Other">>

\* The database file before init_db has ever run on it
EmptyDb ==
    [shopping_list |-> {}, category |-> {}, item |-> {},
     seq |-> [shopping_list |-> 0, category |-> 0, item |-> 0]]

\* SlugTaken without the UNIQUE constraint on slug
SlugTakenNoUnique(d, slug) == FALSE

\* INSERT INTO shopping_list (name, slug): AUTOINCREMENT id, slug UNIQUE
SlugTaken(d, slug) == \E l \in d.shopping_list : l.slug = slug

InsertList(d, name, slug) ==
    LET id == d.seq.shopping_list + 1
    IN  [d EXCEPT !.shopping_list = @ \cup {[id |-> id, name |-> name, slug |-> slug]},
                  !.seq.shopping_list = id]

\* INSERT INTO category (name) VALUES (?), for each of the five default names
SeedCategories(d) ==
    LET n == d.seq.category
    IN  [d EXCEPT !.category = d.category \cup
                                {[id |-> n + i, name |-> DefaultCategories[i]] :
                                    i \in 1..Len(DefaultCategories)},
                  !.seq.category = n + Len(DefaultCategories)]

\* init_db seeding the categories without counting them first
init_db_NoCount(d) ==
    LET d1 == SeedCategories(d)
    IN  IF d1.shopping_list = {} THEN InsertList(d1, Saturday, saturday) ELSE d1

\* init_db: CREATE TABLE IF NOT EXISTS, then seed whichever table is empty
init_db(d) ==
    LET d1 == IF d.category = {} THEN SeedCategories(d) ELSE d
    IN  IF d1.shopping_list = {} THEN InsertList(d1, Saturday, saturday) ELSE d1

\* ensure_db (before_request): the store every handler starts from
ensure_db == IF _db_initialized THEN db ELSE init_db(db)

\* SELECT id FROM shopping_list WHERE slug = ?   (0 stands for None)
_list_id_from_slug(d, slug) ==
    IF \E l \in d.shopping_list : l.slug = slug
    THEN (CHOOSE l \in d.shopping_list : l.slug = slug).id
    ELSE 0

----------------------------------------------------------------------------
(* Sorting rows, for ORDER BY *)

\* The rows of set S as a sequence ascending in `before`, the set of the
\* pairs <<a, b>> of rows of S with a before b (a strict total order on S)
SortBy(S, before) ==
    [i \in 1..Cardinality(S) |->
        CHOOSE r \in S : Cardinality({o \in S : <<o, r>> \in before}) = i - 1]

\* ORDER BY id
ById(S) == {p \in S \X S : p[1].id < p[2].id}

\* ORDER BY i.sort_order, i.id
BySortOrderId(S) ==
    {p \in S \X S : \/ p[1].sort_order < p[2].sort_order
                    \/ p[1].sort_order = p[2].sort_order /\ p[1].id < p[2].id}

\* ORDER BY name on the category table (BINARY collation of the seeded names)
NameRank(name) ==
    CASE name = "Bakery"  -> 1
      [] name = "Dairy"   -> 2
      [] name = "Frozen"  -> 3
      [] name = "Other"   -> 4
      [] name = "Produce" -> 5

ByNameThenId(S) ==
    {p \in S \X S : \/ NameRank(p[1].name) < NameRank(p[2].name)
                    \/ NameRank(p[1].name) = NameRank(p[2].name) /\ p[1].id < p[2].id}

----------------------------------------------------------------------------
(* Requests and responses *)

NoData == [k \in {} |-> Null]

Request(op, slug, item_id, data) ==
    [op |-> op, slug |-> slug, item_id |-> item_id, data |-> data]

Error(status) == [status |-> status, body |-> <<>>]

Threads == 1..MaxThreads

\* A thread that handles no request
Idle == [pc |-> "idle", req |-> Request("none", <<>>, 0, NoData),
         list_id |-> 0, value |-> 0]

\* Every handler runs after ensure_db, which sets the flag; it leaves the
\* store d, the response out and `open` connections without a conn.close()
Finish(r, d, out, open) ==
    /\ req' = r
    /\ db' = d
    /\ resp' = out
    /\ open_connections' = open
    /\ pending' = pending
    /\ _db_initialized' = TRUE
    /\ init_db_calls' = IF _db_initialized THEN init_db_calls ELSE init_db_calls + 1

\* A handler that returns, or fails with no connection of its own open
Handle(r, d, out) == Finish(r, d, out, 0)

\* A handler that an exception leaves between conn = get_db() and conn.close()
Raise(r, d) == Finish(r, d, Error(500), 1)

----------------------------------------------------------------------------
(* List API *)

\* GET /api/lists
api_lists_get ==
    LET d == ensure_db
    IN  Handle(Request("lists_get", <<>>, 0, NoData), d,
               [status |-> 200, body |-> SortBy(d.shopping_list, ById(d.shopping_list))])

\* api_lists_post testing the name after the INSERT
api_lists_post_InsertFirst(data) ==
    LET d    == ensure_db
        r    == Request("lists_post", <<>>, 0, data)
        raw  == Get(data, "name")
        name == Strip(IF Truthy(raw) THEN raw.v ELSE <<>>)
        slug == Slugify(name)
        d1   == InsertList(d, name, slug)
    IN  IF Truthy(raw) /\ raw.t # "str" THEN Handle(r, d, Error(500))
        ELSE IF SlugTaken(d, slug) THEN Handle(r, d, Error(409))
        ELSE IF name = <<>> THEN Handle(r, d1, Error(400))
        ELSE Handle(r, d1,
                    [status |-> 201,
                     body |-> <<[id |-> d1.seq.shopping_list, name |-> name,
                                 slug |-> slug]>>])

\* POST /api/lists
api_lists_post(data) ==
    LET d    == ensure_db
        r    == Request("lists_post", <<>>, 0, data)
        raw  == Get(data, "name")
        name == Strip(IF Truthy(raw) THEN raw.v ELSE <<>>)
        slug == Slugify(name)
        d1   == InsertList(d, name, slug)
    IN  IF Truthy(raw) /\ raw.t # "str" THEN Handle(r, d, Error(500))
        ELSE IF name = <<>> THEN Handle(r, d, Error(400))
        ELSE IF SlugTaken(d, slug) THEN Handle(r, d, Error(409))
        ELSE Handle(r, d1,
                    [status |-> 201,
                     body |-> <<[id |-> d1.seq.shopping_list, name |-> name,
                                 slug |-> slug]>>])

----------------------------------------------------------------------------
(* Category API *)

\* GET /api/categories
api_categories_get ==
    LET d == ensure_db
    IN  Handle(Request("categories_get", <<>>, 0, NoData), d,
               [status |-> 200, body |-> SortBy(d.category, ByNameThenId(d.category))])

----------------------------------------------------------------------------
(* Item API *)

\* float(p): the number, or the exception float() raises
IsDigit(c) == c \in {"0", "1", "2", "3", "4", "5", "6", "7", "8", "9"}

DigitVal(c) == CHOOSE n \in 0..9 : <<"0", "1", "2", "3", "4", "5", "6", "7", "8", "9">>[n + 1] = c

RECURSIVE Digits(_)
Digits(s) == IF s = <<>> THEN 0 ELSE 10 * Digits(SubSeq(s, 1, Len(s) - 1)) + DigitVal(s[Len(s)])

IsDigits(s) == s # <<>> /\ \A i \in 1..Len(s) : IsDigit(s[i])

FloatRaises(p) ==
    CASE p.t = "num"  -> FALSE
      [] p.t = "bool" -> FALSE
      [] p.t = "str"  -> LET s == Strip(p.v)
                         IN  ~ \/ IsDigits(s)
                               \/ s # <<>> /\ Head(s) = "-" /\ IsDigits(Tail(s))
      [] OTHER        -> TRUE

\* in thousandths; a JSON number given as a price is in thousandths already
Float(p) ==
    CASE p.t = "num"  -> p.v
      [] p.t = "bool" -> IF p.v THEN 1000 ELSE 0
      [] p.t = "str"  -> LET s == Strip(p.v)
                         IN  IF Head(s) = "-" THEN 0 - 1000 * Digits(Tail(s))
                             ELSE 1000 * Digits(s)

\* round(x, 2) of a number of thousandths that is no tie (does not end in 5)
Round2(m) ==
    CASE m % 10 < 5 -> m - (m % 10)
      [] m % 10 > 5 -> m - (m % 10) + 10

\* (val or "").strip() raises AttributeError on a truthy value that is no string
StripRaises(val) == Truthy(val) /\ val.t # "str"

OrEmptyStrip(val) == Strip(IF Truthy(val) THEN val.v ELSE <<>>)

\* `x or None` on a string, as bound to a TEXT column
OrNone(s) == IF s = <<>> THEN Null ELSE Str(s)

ItemsOf(d, list_id) == {i \in d.item : i.list_id = list_id}

RECURSIVE SumPrice(_)
SumPrice(S) ==
    IF S = {} THEN 0
    ELSE LET i == CHOOSE x \in S : TRUE
         IN  (IF i.price.t = "num" THEN i.price.v ELSE 0) + SumPrice(S \ {i})

\* MaxSortOrder taken to be the number of items, less one
MaxSortOrderByCount(S) == Cardinality(S) - 1

\* MaxSortOrder taking MIN(sort_order)
MaxSortOrderAsMin(S) ==
    IF S = {} THEN -1
    ELSE (CHOOSE x \in S : \A y \in S : x.sort_order <= y.sort_order).sort_order

RECURSIVE MaxSortOrder(_)
MaxSortOrder(S) ==
    IF S = {} THEN -1
    ELSE LET i == CHOOSE x \in S : TRUE
             m == MaxSortOrder(S \ {i})
         IN  IF i.sort_order > m THEN i.sort_order ELSE m

\* FROM item i JOIN category c ON c.id = i.category_id
Joins(d, i) == i.category_id.t = "num" /\ \E c \in d.category : c.id = i.category_id.v

CategoryName(d, i) == (CHOOSE c \in d.category : c.id = i.category_id.v).name

\* The item object of the responses
ItemJson(d, i) ==
    [id |-> i.id, list_id |-> i.list_id, category_id |-> i.category_id,
     category_name |-> CategoryName(d, i), name |-> i.name,
     quantity |-> IF Truthy(i.quantity) THEN i.quantity.v ELSE <<>>,
     notes |-> IF Truthy(i.notes) THEN i.notes.v ELSE <<>>,
     price |-> i.price, checked |-> i.checked # 0, sort_order |-> i.sort_order]

\* GET /api/lists/<slug>/items
api_list_items_get(slug) ==
    LET d       == ensure_db
        r       == Request("items_get", slug, 0, NoData)
        list_id == _list_id_from_slug(d, slug)
        joined  == {i \in ItemsOf(d, list_id) : Joins(d, i)}
        rows    == SortBy(joined, BySortOrderId(joined))
    IN  IF list_id = 0 THEN Handle(r, d, Error(404))
        ELSE Handle(r, d,
                    [status |-> 200,
                     body |-> [k \in 1..Len(rows) |-> ItemJson(d, rows[k])],
                     total_spend |-> Round2(SumPrice(ItemsOf(d, list_id)))])

\* PostPrice storing a negative price as it is
PostPriceKeepsNegative(p) ==
    IF p.t = "null" THEN Null
    ELSE IF FloatRaises(p) THEN Null
    ELSE Num(Float(p))

\* price normalisation of add-item
PostPrice(p) ==
    IF p.t = "null" THEN Null
    ELSE IF FloatRaises(p) THEN Null
    ELSE IF Float(p) < 0 THEN Null
    ELSE Num(Float(p))

\* POST /api/lists/<slug>/items
api_list_items_post(slug, data) ==
    LET d           == ensure_db
        r           == Request("items_post", slug, 0, data)
        list_id     == _list_id_from_slug(d, slug)
        name        == OrEmptyStrip(Get(data, "name"))
        category_id == Get(data, "category_id")
        quantity    == OrEmptyStrip(Get(data, "quantity"))
        notes       == OrEmptyStrip(Get(data, "notes"))
        price       == PostPrice(Get(data, "price"))
        sort_order  == MaxSortOrder(ItemsOf(d, list_id)) + 1
        id          == d.seq.item + 1
        row         == [id |-> id, list_id |-> list_id, category_id |-> category_id,
                        name |-> name, quantity |-> OrNone(quantity),
                        notes |-> OrNone(notes), price |-> price, checked |-> 0,
                        sort_order |-> sort_order]
        d1          == [d EXCEPT !.item = @ \cup {row}, !.seq.item = id]
    IN  IF list_id = 0 THEN Handle(r, d, Error(404))
        ELSE IF StripRaises(Get(data, "name")) THEN Handle(r, d, Error(500))
        ELSE IF name = <<>> THEN Handle(r, d, Error(400))
        ELSE IF category_id.t = "null" THEN Handle(r, d, Error(400))
        ELSE IF StripRaises(Get(data, "quantity")) \/ StripRaises(Get(data, "notes"))
             THEN Handle(r, d, Error(500))
        ELSE IF Joins(d1, row)
             THEN Handle(r, d1, [status |-> 201, body |-> <<ItemJson(d1, row)>>])
             ELSE Handle(r, d1, Error(500))

\* The keys api_item_patch recognises
PatchKeys == {"name", "quantity", "notes", "category_id", "price", "checked"}

\* name: val = (val or "").strip() or row["name"]
PatchName(row, val) ==
    IF OrEmptyStrip(val) = <<>> THEN row.name ELSE OrEmptyStrip(val)

\* PatchText binding NULL for a null
PatchTextNullClears(row, key, val) ==
    IF val.t # "null" THEN Str(OrEmptyStrip(val)) ELSE Null

\* quantity, notes: val = (val or "").strip() if val is not None else row[key]
PatchText(row, key, val) ==
    IF val.t # "null" THEN Str(OrEmptyStrip(val)) ELSE row[key]

\* PatchPrice falling back to the stored price on a negative number too
PatchPriceKeepsNegative(row, val) ==
    IF val.t = "null" THEN Null
    ELSE IF FloatRaises(val) THEN row.price
    ELSE IF Float(val) >= 0 THEN Num(Float(val))
    ELSE row.price

\* price: None, float(p) when it is >= 0, None when it is not, row["price"]
\* when float(p) raises
PatchPrice(row, val) ==
    IF val.t = "null" THEN Null
    ELSE IF FloatRaises(val) THEN row.price
    ELSE IF Float(val) >= 0 THEN Num(Float(val))
    ELSE Null

\* checked: 1 if data["checked"] else 0
PatchChecked(val) == IF Truthy(val) THEN 1 ELSE 0

\* The value api_item_patch binds for `key`, given the row read first
PatchValue(row, data, key) ==
    CASE key = "name"                 -> PatchName(row, data[key])
      [] key \in {"quantity", "notes"} -> PatchText(row, key, data[key])
      [] key = "category_id"          -> data[key]
      [] key = "price"                -> PatchPrice(row, data[key])
      [] key = "checked"              -> PatchChecked(data[key])

\* PatchRow writing checked on every update, 0 when the body has no checked
PatchRowWritesChecked(row, data) ==
    [f \in DOMAIN row |->
        IF f \in PatchKeys \cap DOMAIN data THEN PatchValue(row, data, f)
        ELSE IF f = "checked" THEN 0
        ELSE row[f]]

\* UPDATE item SET <the keys present> WHERE id = ?
PatchRow(row, data) ==
    [f \in DOMAIN row |->
        IF f \in PatchKeys \cap DOMAIN data THEN PatchValue(row, data, f) ELSE row[f]]

\* PATCH /api/items/<item_id>
api_item_patch(item_id, data) ==
    LET d    == ensure_db
        r    == Request("item_patch", <<>>, item_id, data)
        row  == CHOOSE i \in d.item : i.id = item_id
        new  == PatchRow(row, data)
        d1   == [d EXCEPT !.item = (@ \ {row}) \cup {new}]
    IN  IF ~ \E i \in d.item : i.id = item_id THEN Handle(r, d, Error(404))
        ELSE IF \E k \in {"name", "quantity", "notes"} \cap DOMAIN data :
                    StripRaises(data[k])
             THEN Raise(r, d)
        ELSE IF PatchKeys \cap DOMAIN data = {} THEN Handle(r, d, Error(400))
        ELSE IF new.category_id.t = "null" THEN Raise(r, d)
        ELSE IF Joins(d1, new)
             THEN Handle(r, d1, [status |-> 200, body |-> <<ItemJson(d1, new)>>])
             ELSE Handle(r, d1, Error(500))

\* api_item_delete without the rowcount test
api_item_delete_NoRowcount(item_id) ==
    LET d  == ensure_db
        r  == Request("item_delete", <<>>, item_id, NoData)
        d1 == [d EXCEPT !.item = {i \in @ : i.id # item_id}]
    IN  Handle(r, d1, [status |-> 200, body |-> <<>>])

\* DELETE /api/items/<item_id>
api_item_delete(item_id) ==
    LET d  == ensure_db
        r  == Request("item_delete", <<>>, item_id, NoData)
        d1 == [d EXCEPT !.item = {i \in @ : i.id # item_id}]
    IN  IF d1.item = d.item THEN Handle(r, d1, Error(404))
        ELSE Handle(r, d1, [status |-> 200, body |-> <<>>])

\* api_list_clear_completed with DELETE FROM item WHERE checked = 1
api_list_clear_completed_AnyList(slug) ==
    LET d       == ensure_db
        r       == Request("clear_completed", slug, 0, NoData)
        list_id == _list_id_from_slug(d, slug)
        d1      == [d EXCEPT !.item = {i \in @ : ~ (i.checked = 1)}]
    IN  IF list_id = 0 THEN Handle(r, d, Error(404))
        ELSE Handle(r, d1, [status |-> 200, body |-> <<>>])

\* POST /api/lists/<slug>/items/clear-completed
api_list_clear_completed(slug) ==
    LET d       == ensure_db
        r       == Request("clear_completed", slug, 0, NoData)
        list_id == _list_id_from_slug(d, slug)
        d1      == [d EXCEPT !.item = {i \in @ : ~ (i.list_id = list_id /\ i.checked = 1)}]
    IN  IF list_id = 0 THEN Handle(r, d, Error(404))
        ELSE Handle(r, d1, [status |-> 200, body |-> <<>>])

\* GET /
index == Handle(Request("index", <<>>, 0, NoData), ensure_db, [status |-> 200, body |-> <<>>])

----------------------------------------------------------------------------
(* The application: requests are handled one at a time.  A request is one  *)
(* of the routes with its URL parameters and JSON body drawn from the      *)
(* given sets, as long as the AUTOINCREMENT counters stay in the bounds.     *)

Requests(listBodies, slugs, itemPosts, itemPatches, deleteIds, maxItems) ==
    \/ index
    \/ api_lists_get
    \/ \E data \in listBodies :
          api_lists_post(data) /\ db'.seq.shopping_list <= MaxLists
    \/ api_categories_get
    \/ \E slug \in slugs : api_list_items_get(slug)
    \/ \E p \in itemPosts :
          api_list_items_post(p[1], p[2]) /\ db'.seq.item <= maxItems
    \/ \E p \in itemPatches : api_item_patch(p[1], p[2])
    \/ \E item_id \in deleteIds : api_item_delete(item_id)
    \/ \E slug \in slugs : api_list_clear_completed(slug)

Init ==
    /\ db = EmptyDb
    /\ _db_initialized = FALSE
    /\ init_db_calls = 0
    /\ open_connections = 0
    /\ pending = [t \in Threads |-> Idle]
    /\ req = Request("none", <<>>, 0, NoData)
    /\ resp = [status |-> 0, body |-> <<>>]

ghost == <<"g", "h", "o", "s", "t">>

ItemIds == 1..(MaxItems + 1)

----------------------------------------------------------------------------
(* Spec: several lists, items that differ in list and checked *)

ListBodies ==
    {NoData, [name |-> Num(1)]} \cup
    {[name |-> Str(n)] : n \in {<<" ">>, <<" ", "A", " ">>, <<"a">>, saturday}}

Slugs == {saturday, <<"a">>, ghost}

ItemBody == [name |-> Str(<<" ", "a">>), category_id |-> Num(1)]

Posts ==
    (Slugs \X {ItemBody}) \cup
    ({saturday} \X {NoData, [name |-> Str(<<" ">>), category_id |-> Num(1)],
                    [name |-> Str(<<"a">>)]})

Patches ==
    (ItemIds \X {[checked |-> Bool(TRUE)], [checked |-> Bool(FALSE)]}) \cup
    ({1} \X {NoData, [other |-> Num(1)]})

Next == Requests(ListBodies, Slugs, Posts, Patches, ItemIds, MaxItems)

Spec == Init /\ [][Next]_vars

----------------------------------------------------------------------------
(* SpecFields: one list, and updates of every field of its first item *)

FieldSlugs == {saturday, ghost}

FieldItemBodies ==
    {[name |-> Str(<<" ", "a">>), category_id |-> Num(1), quantity |-> Str(<<"3", " ">>),
      notes |-> Str(<<"n">>), price |-> Num(2)],
     [name |-> Str(<<"a">>), category_id |-> Num(1), quantity |-> Str(<<" ">>),
      notes |-> Null, price |-> Num(-5)],
     [name |-> Num(1), category_id |-> Num(1)],
     [name |-> Str(<<"a">>), category_id |-> Num(9)]}

FieldPatchBodies ==
    {NoData}
    \cup {[name |-> v] : v \in {Str(<<" ">>), Str(<<"b", " ">>), Num(1)}}
    \cup {[quantity |-> v] : v \in {Null, Str(<<" ">>), Str(<<" ", "3">>)}}
    \cup {[notes |-> v] : v \in {Null, Str(<<"n">>)}}
    \cup {[category_id |-> v] : v \in {Null, Num(1), Num(9)}}
    \cup {[price |-> v] : v \in {Null, Num(-1), Num(2), Str(<<"x">>)}}
    \cup {[checked |-> v] : v \in {Bool(TRUE), Bool(FALSE)}}
    \cup {[name |-> Str(<<"b">>), price |-> Num(-1), checked |-> Bool(TRUE)],
          [sort_order |-> Num(7), checked |-> Bool(TRUE)]}

FieldPosts == ({saturday} \X FieldItemBodies) \cup {<<ghost, NoData>>, <<saturday, NoData>>}

FieldPatches == ({1} \X FieldPatchBodies) \cup ({MaxItems + 1} \X {NoData, [checked |-> Bool(TRUE)]})

NextFields ==
    Requests({NoData}, FieldSlugs, FieldPosts, FieldPatches, ItemIds, MaxFieldItems)

SpecFields == Init /\ [][NextFields]_vars

----------------------------------------------------------------------------
(* SpecPrices: two lists, items that differ in list and price *)

PriceSlugs == {saturday, <<"a">>}

PriceBodies ==
    {[name |-> Str(<<"a">>), category_id |-> Num(1), price |-> v] :
        v \in {Num(1250), Num(4), Num(-5000)}}

PricePatches == {1} \X {[price |-> Null], [price |-> Num(4)]}

NextPrices ==
    Requests({[name |-> Str(<<"a">>)]}, PriceSlugs, PriceSlugs \X PriceBodies,
             PricePatches, ItemIds, MaxPriceItems)

SpecPrices == Init /\ [][NextPrices]_vars

----------------------------------------------------------------------------
(* SpecRestart: the process is stopped and started again between requests *)

\* A new process on the same database file: the module is loaded again
restart ==
    /\ _db_initialized
    /\ init_db_calls < MaxInitCalls
    /\ _db_initialized' = FALSE
    /\ UNCHANGED <<db, init_db_calls, req, resp, open_connections, pending>>

RestartListBodies == {[name |-> Str(n)] : n \in {Saturday, <<"a">>}}

RestartPosts == {saturday, <<"a">>} \X {ItemBody}

RestartPatches == {1} \X {[checked |-> Bool(TRUE)]}

NextRestart ==
    \/ Requests(RestartListBodies, {saturday}, RestartPosts, RestartPatches,
                {1}, MaxFieldItems)
    \/ restart

SpecRestart == Init /\ [][NextRestart]_vars

----------------------------------------------------------------------------
(* SpecNames: one list is created, under every short name *)

NameChars == {"A", "b", " ", "'", "-"}

MomsParty == <<"M", "o", "m", "'", "s", " ", "P", "a", "r", "t", "y">>

Names == UNION {[1..n -> NameChars] : n \in 0..MaxNameLen} \cup {MomsParty}

\* POST /api/lists on the store as seeded
NextNames ==
    \E name \in Names :
        /\ db.shopping_list \subseteq init_db(EmptyDb).shopping_list
        /\ api_lists_post([name |-> Str(name)])

SpecNames == Init /\ [][NextNames]_vars

----------------------------------------------------------------------------
(* SpecThreads: requests handled in threads, a step for each statement *)

\* The thread goes on to pc, with what it read
Goto(t, pc, list_id, value) ==
    /\ pending' = [pending EXCEPT ![t] = [@ EXCEPT !.pc = pc, !.list_id = list_id,
                                                   !.value = value]]
    /\ UNCHANGED <<req, resp, open_connections>>

\* The thread's handler returns out, or fails, with its connections closed
Respond(t, out) ==
    /\ req' = pending[t].req
    /\ resp' = out
    /\ open_connections' = 0
    /\ pending' = [pending EXCEPT ![t] = Idle]
    /\ UNCHANGED <<_db_initialized, init_db_calls>>

\* The item rows still to be inserted for the requests being handled
PendingInserts ==
    Cardinality({t \in Threads : /\ pending[t].req.op = "items_post"
                                 /\ pending[t].pc \notin {"idle", "select"}})

\* ensure_db: a thread takes a request and tests the flag
ensure_db_test(t, r) ==
    /\ pending[t].pc = "idle"
    /\ r.op = "items_post" => db.seq.item + PendingInserts < MaxThreadItems
    /\ pending' = [pending EXCEPT ![t] =
                      [pc |-> IF _db_initialized THEN "route" ELSE "init_db",
                       req |-> r, list_id |-> 0, value |-> 0]]
    /\ UNCHANGED <<db, _db_initialized, init_db_calls, req, resp, open_connections>>

\* init_db: CREATE TABLE IF NOT EXISTS and SELECT COUNT(*) FROM category
init_db_count(t) ==
    /\ pending[t].pc = "init_db"
    /\ Goto(t, IF db.category = {} THEN "seed" ELSE "lists", 0, 0)
    /\ UNCHANGED <<db, _db_initialized, init_db_calls>>

\* init_db, the categories counted 0: the transaction that inserts the five
\* categories, counts the lists, inserts the Saturday list if there is none,
\* and commits
init_db_seed(t) ==
    /\ pending[t].pc = "seed"
    /\ LET d1 == SeedCategories(db)
       IN  db' = IF d1.shopping_list = {} THEN InsertList(d1, Saturday, saturday)
                 ELSE d1
    /\ Goto(t, "set_flag", 0, 0)
    /\ UNCHANGED <<_db_initialized, init_db_calls>>

\* init_db, the categories counted other than 0: SELECT COUNT(*) FROM
\* shopping_list and the Saturday list if there is none.  The two are one
\* step because a store with a category has a list (init_db_seed, and no
\* route deletes a list).
init_db_lists(t) ==
    /\ pending[t].pc = "lists"
    /\ db' = IF db.shopping_list = {} THEN InsertList(db, Saturday, saturday) ELSE db
    /\ Goto(t, "set_flag", 0, 0)
    /\ UNCHANGED <<_db_initialized, init_db_calls>>

\* ensure_db: _db_initialized = True, after init_db has returned
ensure_db_set(t) ==
    /\ pending[t].pc = "set_flag"
    /\ _db_initialized' = TRUE
    /\ init_db_calls' = init_db_calls + 1
    /\ Goto(t, "route", 0, 0)
    /\ UNCHANGED db

\* Which thread step handles the route of a request
AtRoute(t, op) == pending[t].pc = "route" /\ pending[t].req.op = op

\* add-item up to SELECT COALESCE(MAX(sort_order), -1) + 1
items_post_read(t) ==
    LET slug    == pending[t].req.slug
        data    == pending[t].req.data
        list_id == _list_id_from_slug(db, slug)
    IN  /\ AtRoute(t, "items_post")
        /\ UNCHANGED db
        /\ IF list_id = 0 THEN Respond(t, Error(404))
           ELSE IF StripRaises(Get(data, "name")) THEN Respond(t, Error(500))
           ELSE IF OrEmptyStrip(Get(data, "name")) = <<>> THEN Respond(t, Error(400))
           ELSE IF Get(data, "category_id").t = "null" THEN Respond(t, Error(400))
           ELSE IF StripRaises(Get(data, "quantity")) \/ StripRaises(Get(data, "notes"))
                THEN Respond(t, Error(500))
           ELSE /\ Goto(t, "insert", list_id, MaxSortOrder(ItemsOf(db, list_id)) + 1)
                /\ UNCHANGED <<_db_initialized, init_db_calls>>

\* items_post_insert with the sort_order computed by the INSERT itself
items_post_insert_Atomic(t) ==
    LET data == pending[t].req.data
        id   == db.seq.item + 1
        row  == [id |-> id, list_id |-> pending[t].list_id,
                 category_id |-> Get(data, "category_id"),
                 name |-> OrEmptyStrip(Get(data, "name")),
                 quantity |-> OrNone(OrEmptyStrip(Get(data, "quantity"))),
                 notes |-> OrNone(OrEmptyStrip(Get(data, "notes"))),
                 price |-> PostPrice(Get(data, "price")), checked |-> 0,
                 sort_order |-> MaxSortOrder(ItemsOf(db, pending[t].list_id)) + 1]
    IN  /\ pending[t].pc = "insert"
        /\ db' = [db EXCEPT !.item = @ \cup {row}, !.seq.item = id]
        /\ Goto(t, "select", pending[t].list_id, id)
        /\ UNCHANGED <<_db_initialized, init_db_calls>>

\* add-item: INSERT INTO item with the sort_order read before, and commit
items_post_insert(t) ==
    LET data == pending[t].req.data
        id   == db.seq.item + 1
        row  == [id |-> id, list_id |-> pending[t].list_id,
                 category_id |-> Get(data, "category_id"),
                 name |-> OrEmptyStrip(Get(data, "name")),
                 quantity |-> OrNone(OrEmptyStrip(Get(data, "quantity"))),
                 notes |-> OrNone(OrEmptyStrip(Get(data, "notes"))),
                 price |-> PostPrice(Get(data, "price")), checked |-> 0,
                 sort_order |-> pending[t].value]
    IN  /\ pending[t].pc = "insert"
        /\ db' = [db EXCEPT !.item = @ \cup {row}, !.seq.item = id]
        /\ Goto(t, "select", pending[t].list_id, id)
        /\ UNCHANGED <<_db_initialized, init_db_calls>>

\* add-item: the joined SELECT of the row of last_insert_rowid(), conn.close()
\* and the response
items_post_select(t) ==
    LET rows == {i \in db.item : i.id = pending[t].value /\ Joins(db, i)}
        row  == CHOOSE i \in rows : TRUE
    IN  /\ pending[t].pc = "select"
        /\ UNCHANGED db
        /\ IF rows = {} THEN Respond(t, Error(500))
           ELSE Respond(t, [status |-> 201,
                            body |-> <<[ItemJson(db, row) EXCEPT
                                           !.list_id = pending[t].list_id,
                                           !.checked = FALSE]>>])

\* list-items up to SELECT COALESCE(SUM(price), 0)
items_get_total(t) ==
    LET list_id == _list_id_from_slug(db, pending[t].req.slug)
    IN  /\ AtRoute(t, "items_get")
        /\ UNCHANGED db
        /\ IF list_id = 0 THEN Respond(t, Error(404))
           ELSE /\ Goto(t, "items", list_id, SumPrice(ItemsOf(db, list_id)))
                /\ UNCHANGED <<_db_initialized, init_db_calls>>

\* items_get_items with the total taken from the rows of its own SELECT
items_get_items_OneQuery(t) ==
    LET joined == {i \in ItemsOf(db, pending[t].list_id) : Joins(db, i)}
        rows   == SortBy(joined, BySortOrderId(joined))
    IN  /\ pending[t].pc = "items"
        /\ UNCHANGED db
        /\ Respond(t, [status |-> 200,
                       body |-> [k \in 1..Len(rows) |-> ItemJson(db, rows[k])],
                       total_spend |-> Round2(SumPrice(joined))])

\* list-items: the SELECT of the items, conn.close() and the response
items_get_items(t) ==
    LET joined == {i \in ItemsOf(db, pending[t].list_id) : Joins(db, i)}
        rows   == SortBy(joined, BySortOrderId(joined))
    IN  /\ pending[t].pc = "items"
        /\ UNCHANGED db
        /\ Respond(t, [status |-> 200,
                       body |-> [k \in 1..Len(rows) |-> ItemJson(db, rows[k])],
                       total_spend |-> Round2(pending[t].value)])

\* delete-item: DELETE FROM item WHERE id = ?, commit, and the rowcount
item_delete_route(t) ==
    LET d1 == [db EXCEPT !.item = {i \in @ : i.id # pending[t].req.item_id}]
    IN  /\ AtRoute(t, "item_delete")
        /\ db' = d1
        /\ IF d1.item = db.item THEN Respond(t, Error(404))
           ELSE Respond(t, [status |-> 200, body |-> <<>>])

ThreadBody == [name |-> Str(<<"a">>), category_id |-> Num(1), price |-> Num(1250)]

ThreadRequests ==
    {Request("items_post", saturday, 0, ThreadBody),
     Request("items_get", saturday, 0, NoData),
     Request("item_delete", <<>>, 1, NoData)}

NextThreads ==
    \E t \in Threads :
        \/ \E r \in ThreadRequests : ensure_db_test(t, r)
        \/ init_db_count(t)
        \/ init_db_seed(t)
        \/ init_db_lists(t)
        \/ ensure_db_set(t)
        \/ items_post_read(t)
        \/ items_post_insert(t)
        \/ items_post_select(t)
        \/ items_get_total(t)
        \/ items_get_items(t)
        \/ item_delete_route(t)

SpecThreads == Init /\ [][NextThreads]_vars

----------------------------------------------------------------------------
(* Properties *)

\* The item with the given id in a set of rows
ItemOf(items, id) == CHOOSE i \in items : i.id = id

HasItem(items, id) == \E i \in items : i.id = id

\* C1: every stored item's list_id is the id of an existing list and its
\* category_id the id of an existing category, whatever requests were made
\* (an add-item or update-item naming no category leaves no such item stored).
C1_ForeignKeysHold ==
    \A i \in db.item :
        /\ \E l \in db.shopping_list : l.id = i.list_id
        /\ i.category_id.t = "num"
        /\ \E c \in db.category : c.id = i.category_id.v

\* C2: no two lists ever share a slug, and a create-list whose derived slug
\* is the slug of an existing list is answered 409, inserts nothing and leaves
\* every existing list as it was.
C2_SlugUnique ==
    [][ /\ \A l1, l2 \in db'.shopping_list : l1.slug = l2.slug => l1 = l2
        /\ ( /\ req'.op = "lists_post"
             /\ "name" \in DOMAIN req'.data
             /\ req'.data.name.t = "str"
             /\ Strip(req'.data.name.v) # <<>>
             /\ \E l \in db.shopping_list : l.slug = Slugify(Strip(req'.data.name.v)) )
           => /\ resp'.status = 409
              /\ db'.shopping_list = db.shopping_list
              /\ db'.seq = db.seq ]_vars

\* a create-list was refused because another list, of another name, has its slug
C2_Witness ==
    /\ req.op = "lists_post"
    /\ resp.status = 409
    /\ \E l \in db.shopping_list :
          /\ l.slug = Slugify(Strip(req.data.name.v))
          /\ l.name # Strip(req.data.name.v)
    /\ Cardinality(db.shopping_list) = 2

\* The items of the list a slug resolves to
ItemsOfSlug(d, slug) ==
    {i \in d.item : \E l \in d.shopping_list : l.slug = slug /\ l.id = i.list_id}

\* The sort_order of every item of S is the number of items of S added before it
InCallOrder(S) == \A i \in S : i.sort_order = Cardinality({j \in S : j.id < i.id})

\* C3: a successful add-item stores one new item whose sort_order is the
\* greatest sort_order of its list plus one (0 in a list without items), so N
\* adds to a list without items give 0..N-1 in call order and list-items then
\* answers them in call order; deleting items leaves the sort_order of the rest.
C3_SortOrderAssigned ==
    [][ /\ (req'.op = "items_post" /\ resp'.status = 201) =>
              \E n \in db'.item \ db.item :
                  LET S == {i \in db.item : i.list_id = n.list_id}
                  IN  /\ db'.item = db.item \cup {n}
                      /\ \A i \in S : i.sort_order < n.sort_order
                      /\ IF S = {} THEN n.sort_order = 0
                         ELSE \E i \in S : n.sort_order = i.sort_order + 1
                      /\ InCallOrder(S) =>
                            /\ n.sort_order = Cardinality(S)
                            /\ InCallOrder(S \cup {n})
        /\ (req'.op \in {"item_delete", "clear_completed"}) => db'.item \subseteq db.item
        /\ (req'.op = "items_get" /\ resp'.status = 200) =>
              LET S == ItemsOfSlug(db', req'.slug)
              IN  InCallOrder(S) =>
                     /\ Len(resp'.body) = Cardinality(S)
                     /\ \A k \in 1..Len(resp'.body) :
                           /\ resp'.body[k].sort_order = k - 1
                           /\ \E i \in S : i.id = resp'.body[k].id /\ i.sort_order = k - 1
      ]_vars

\* list-items answered three items added one after another to an empty list
C3_Witness ==
    /\ req.op = "items_get"
    /\ resp.status = 200
    /\ Len(resp.body) = 3
    /\ \A k \in 1..3 : resp.body[k].sort_order = k - 1 /\ resp.body[k].id = k

\* C4: list-items for an existing slug answers exactly the stored items of the
\* resolved list, none missing and none of another list, in (sort_order, id)
\* order.
C4_ListItemsExact ==
    (req.op = "items_get" /\ resp.status = 200) =>
        LET S == ItemsOfSlug(db, req.slug)
        IN  /\ {resp.body[k].id : k \in 1..Len(resp.body)} = {i.id : i \in S}
            /\ Len(resp.body) = Cardinality(S)
            /\ \A k \in 1..Len(resp.body) : resp.body[k].list_id \in {i.list_id : i \in S}
            /\ \A j, k \in 1..Len(resp.body) :
                  j < k => \/ resp.body[j].sort_order < resp.body[k].sort_order
                           \/ /\ resp.body[j].sort_order = resp.body[k].sort_order
                              /\ resp.body[j].id < resp.body[k].id

\* The step is an update-item of an item that is stored
PatchesStored == req'.op = "item_patch" /\ HasItem(db.item, req'.item_id)

Negative(p) == p.t = "num" /\ p.v < 0

NonNumeric(p) == p.t = "str" /\ FloatRaises(p)

\* C5: an update-item whose price is negative or non-numeric leaves the stored
\* price as it was, and only a null price clears a stored price.
C5_RejectedPriceKept ==
    [][ (PatchesStored /\ "price" \in DOMAIN req'.data) =>
           LET p   == req'.data.price
               old == ItemOf(db.item, req'.item_id)
               new == ItemOf(db'.item, req'.item_id)
           IN  /\ (Negative(p) \/ NonNumeric(p)) => new.price = old.price
               /\ (new.price = Null /\ old.price # Null) => p = Null
      ]_vars

\* C5 as amended: an update-item whose price is non-numeric leaves the stored
\* price as it was; a successful update-item whose price is negative clears
\* the stored price, as one whose price is null does.
C5_PriceNormalised ==
    [][ (PatchesStored /\ "price" \in DOMAIN req'.data) =>
           LET p   == req'.data.price
               old == ItemOf(db.item, req'.item_id)
               new == ItemOf(db'.item, req'.item_id)
           IN  /\ NonNumeric(p) => new.price = old.price
               /\ ((Negative(p) \/ p = Null) /\ resp'.status = 200) => new.price = Null
      ]_vars

\* an update-item with a negative price succeeded and the item has no price
C5_Witness ==
    /\ req.op = "item_patch"
    /\ "price" \in DOMAIN req.data
    /\ Negative(req.data.price)
    /\ resp.status = 200
    /\ resp.body[1].price = Null
    /\ ItemOf(db.item, req.item_id).price = Null

\* C6: an update-item whose quantity (or notes) is null clears the stored
\* quantity (or notes) to null, whatever was stored.
C6_NullClears ==
    [][ (PatchesStored /\ resp'.status = 200) =>
           \A k \in {"quantity", "notes"} \cap DOMAIN req'.data :
               req'.data[k] = Null => ItemOf(db'.item, req'.item_id)[k] = Null
      ]_vars

\* C6 as amended: an update-item whose quantity (or notes) is null leaves the
\* stored quantity (or notes) as it was.
C6_NullKeeps ==
    [][ PatchesStored =>
           \A k \in {"quantity", "notes"} \cap DOMAIN req'.data :
               req'.data[k] = Null =>
                   ItemOf(db'.item, req'.item_id)[k] = ItemOf(db.item, req'.item_id)[k]
      ]_vars

\* an update-item with a null quantity succeeded and the quantity is still there
C6_Witness ==
    /\ req.op = "item_patch"
    /\ "quantity" \in DOMAIN req.data
    /\ req.data.quantity = Null
    /\ resp.status = 200
    /\ resp.body[1].quantity = <<"3">>
    /\ ItemOf(db.item, req.item_id).quantity = Str(<<"3">>)

\* C7: a successful update-item changes, of its item, only fields among name,
\* quantity, notes, category_id, price and checked that the body has; the
\* other fields, id, list_id and sort_order among them, keep their values,
\* and no other item, no list and no category changes.
C7_PatchFrame ==
    [][ (req'.op = "item_patch" /\ resp'.status = 200) =>
           /\ HasItem(db.item, req'.item_id)
           /\ HasItem(db'.item, req'.item_id)
           /\ LET old == ItemOf(db.item, req'.item_id)
                  new == ItemOf(db'.item, req'.item_id)
                  written == {"name", "quantity", "notes", "category_id", "price",
                              "checked"} \cap DOMAIN req'.data
              IN  /\ \A f \in DOMAIN old \ written : new[f] = old[f]
                  /\ db'.item \ {new} = db.item \ {old}
           /\ db'.shopping_list = db.shopping_list
           /\ db'.category = db.category
           /\ db'.seq = db.seq
      ]_vars

\* an update-item of checked alone succeeded on an item that has a quantity,
\* notes and a price, next to another item
C7_Witness ==
    /\ req.op = "item_patch"
    /\ resp.status = 200
    /\ DOMAIN req.data = {"sort_order", "checked"}
    /\ resp.body[1].checked
    /\ resp.body[1].sort_order = 0
    /\ resp.body[1].quantity = <<"3">>
    /\ resp.body[1].notes = <<"n">>
    /\ resp.body[1].price = Num(2)
    /\ Cardinality(db.item) = 2

\* C8: a request answered 400 (create-list, add-item, update-item) or 404
\* (list-items, add-item, clear-completed, update-item) leaves lists,
\* categories and items as they were before it, that is as the bootstrap of
\* before_request left them.
C8_ErrorsChangeNothing ==
    [][ ( /\ resp'.status \in {400, 404}
          /\ req'.op \in {"lists_post", "items_get", "items_post", "item_patch",
                          "clear_completed"} )
        => db' = ensure_db ]_vars

\* an update-item of a stored item with a body of no recognised key was answered 400
C8_Witness ==
    /\ req.op = "item_patch"
    /\ req.data = [other |-> Num(1)]
    /\ resp.status = 400
    /\ HasItem(db.item, req.item_id)
    /\ ItemOf(db.item, req.item_id).checked = 1

\* C9: clear-completed on the slug of a list is answered 200 and removes the
\* checked items of that list and nothing else: the unchecked items of the
\* list and the items of the other lists stay as they were.
C9_ClearCompleted ==
    [][ ( /\ req'.op = "clear_completed"
          /\ \E l \in db'.shopping_list : l.slug = req'.slug )
        => /\ resp'.status = 200
           /\ LET list == CHOOSE l \in db'.shopping_list : l.slug = req'.slug
              IN  db'.item = {i \in db.item : ~ (i.list_id = list.id /\ i.checked = 1)}
      ]_vars

\* clear-completed left an unchecked item of its list and a checked item of
\* another list, after some item was removed
C9_Witness ==
    /\ req.op = "clear_completed"
    /\ resp.status = 200
    /\ \E l \in db.shopping_list :
          /\ l.slug = req.slug
          /\ \E i \in db.item : i.list_id = l.id /\ i.checked = 0
          /\ \E i \in db.item : i.list_id # l.id /\ i.checked = 1
    /\ Cardinality(db.item) < db.seq.item

\* C10: delete-item of a stored id removes that item alone and is answered
\* 200; of an id that is not stored it is answered 404; every other item
\* stays as it was.
C10_DeleteItem ==
    [][ req'.op = "item_delete" =>
           IF HasItem(db.item, req'.item_id)
           THEN /\ resp'.status = 200
                /\ db'.item = db.item \ {ItemOf(db.item, req'.item_id)}
           ELSE /\ resp'.status = 404
                /\ db'.item = db.item
      ]_vars

\* a delete-item removed its item and left another one
C10_Witness ==
    /\ req.op = "item_delete"
    /\ resp.status = 200
    /\ ~ HasItem(db.item, req.item_id)
    /\ req.item_id <= db.seq.item
    /\ db.item # {}

\* The sum of the prices of the items of S with an id up to n
RECURSIVE PricesUpTo(_, _)
PricesUpTo(S, n) ==
    IF n = 0 THEN 0
    ELSE PricesUpTo(S, n - 1) +
         (IF \E i \in S : i.id = n /\ i.price # Null
          THEN (CHOOSE i \in S : i.id = n).price.v ELSE 0)

\* The sum of the non-null prices of the items a slug's list holds in store d
PricesOfSlug(d, slug) == PricesUpTo(ItemsOfSlug(d, slug), d.seq.item)

\* The step is an add-item with a negative price that stored an item
AddsNegative ==
    /\ req'.op = "items_post"
    /\ "price" \in DOMAIN req'.data
    /\ Negative(req'.data.price)
    /\ db'.item # db.item

\* C11: the total_spend of list-items is the sum of the non-null prices of the
\* items stored with the list's id, and an add-item with a negative price
\* stores the item without a price and leaves the total_spend of its list.
C11_TotalIsSum ==
    [][ /\ (req'.op = "items_get" /\ resp'.status = 200) =>
              resp'.total_spend = PricesOfSlug(db', req'.slug)
        /\ AddsNegative =>
              /\ \A i \in db'.item \ db.item : i.price = Null
              /\ PricesOfSlug(db', req'.slug) = PricesOfSlug(db, req'.slug)
      ]_vars

\* C11 as amended: the total_spend of list-items is the sum of the non-null
\* prices of the items stored with the list's id, rounded to two decimals; an
\* add-item with a negative price stores the item without a price and leaves
\* that sum, and so the total_spend of its list.
C11_TotalIsRoundedSum ==
    [][ /\ (req'.op = "items_get" /\ resp'.status = 200) =>
              /\ resp'.total_spend % 10 = 0
              /\ resp'.total_spend - PricesOfSlug(db', req'.slug) \in -4..4
        /\ AddsNegative =>
              /\ \A i \in db'.item \ db.item : i.price = Null
              /\ PricesOfSlug(db', req'.slug) = PricesOfSlug(db, req'.slug)
      ]_vars

\* list-items answered a total of 1.25 for a list of three items: one of 1.25,
\* one of 0.004 and one without a price
C11_Witness ==
    /\ req.op = "items_get"
    /\ resp.status = 200
    /\ resp.total_spend = 1250
    /\ PricesOfSlug(db, req.slug) = 1254
    /\ Len(resp.body) = 3
    /\ \E i \in ItemsOfSlug(db, req.slug) : i.price = Null

\* The categories of store d are the five default ones, each once
FiveCategories(d) ==
    /\ Cardinality(d.category) = Len(DefaultCategories)
    /\ \A i \in 1..Len(DefaultCategories) :
          \E c \in d.category : c.name = DefaultCategories[i]

\* The step handles the first request of a process started on a seeded store
Reruns == ~_db_initialized /\ _db_initialized' /\ db # EmptyDb

\* C12: the bootstrap may run any number of times, also in a new process and
\* with requests handled in between: the store holds the five default
\* categories, each once, and a rerun inserts no category, no second
\* "Saturday" list and no other row (the rows a rerun's step adds are the one
\* row its request creates).
C12_BootstrapIdempotent ==
    [][ /\ FiveCategories(db')
        /\ Cardinality({l \in db'.shopping_list : l.name = Saturday}) = 1
        /\ Reruns =>
              /\ db'.category = db.category
              /\ req'.op # "lists_post" => db'.shopping_list = db.shopping_list
              /\ \A l \in db'.shopping_list \ db.shopping_list :
                    /\ l.name = Strip(req'.data.name.v)
                    /\ l.name # Saturday
              /\ req'.op # "items_post" => db'.seq.item = db.seq.item
              /\ db'.seq.item <= db.seq.item + 1
              /\ \A i \in db'.item : HasItem(db.item, i.id) \/ i.id = db'.seq.item
      ]_vars

\* init_db has run a second time, on a store that holds a created list and an
\* item
C12_Witness ==
    /\ init_db_calls = 2
    /\ _db_initialized
    /\ Cardinality(db.shopping_list) = 2
    /\ db.item # {}
    /\ FiveCategories(db)

\* C13: when a request has finished, with a success, a 400, 404 or 409, or an
\* unhandled failure, every connection opened while handling it is closed.
C13_ConnectionsClosed == open_connections = 0

\* name is raw without the spaces raw begins and ends with
IsTrimmed(raw, name) ==
    /\ \E i, j \in 0..Len(raw) :
          /\ i + Len(name) + j = Len(raw)
          /\ \A k \in 1..Len(raw) :
                IF k <= i \/ k > i + Len(name) THEN raw[k] = " "
                ELSE raw[k] = name[k - i]
    /\ name # <<>> => name[1] # " " /\ name[Len(name)] # " "

NotApostrophe(c) == c # "'"

\* The slug of a name: its characters other than the apostrophe, each
\* lowercased and a hyphen for each space; "list" when there is none
SlugOf(name) ==
    LET kept == SelectSeq(name, NotApostrophe)
    IN  IF kept = <<>> THEN <<"l", "i", "s", "t">>
        ELSE [k \in 1..Len(kept) |->
                IF kept[k] = " " THEN "-" ELSE LowerChar(kept[k])]

\* C14: a successful create-list stores one new list, its name the request's
\* name trimmed and its slug that name lowercased, a hyphen for every space
\* and no apostrophe, or "list" when nothing remains.
C14_SlugDerived ==
    [][ (req'.op = "lists_post" /\ resp'.status = 201) =>
          \E l \in db'.shopping_list :
              /\ l.id = db'.seq.shopping_list
              /\ ~ \E o \in db.shopping_list : o.id = l.id
              /\ IsTrimmed(req'.data.name.v, l.name)
              /\ l.name # <<>>
              /\ l.slug = SlugOf(l.name)
              /\ resp'.body = <<l>>
      ]_vars

\* "Mom's Party" was created as moms-party
C14_Witness ==
    /\ req.op = "lists_post"
    /\ resp.status = 201
    /\ req.data.name.v = MomsParty
    /\ \E l \in db.shopping_list :
          l.slug = <<"m", "o", "m", "s", "-", "p", "a", "r", "t", "y">>

\* The step is an update-item of a stored item by a name that is empty after
\* trimming
PatchesBlankName ==
    /\ PatchesStored
    /\ "name" \in DOMAIN req'.data
    /\ req'.data.name.t = "str"
    /\ Strip(req'.data.name.v) = <<>>

\* C15: an update-item whose name is empty after trimming succeeds and leaves
\* the stored name of the item; no stored item has an empty name.
C15_NameNeverEmpty ==
    [][ /\ PatchesBlankName =>
              /\ resp'.status = 200
              /\ ItemOf(db'.item, req'.item_id).name = ItemOf(db.item, req'.item_id).name
        /\ \A i \in db'.item : i.name # <<>>
      ]_vars

\* C17: with the requests handled one at a time, the items of one list have
\* pairwise distinct sort_orders, and an item that is added has a sort_order
\* greater than that of every item its list held.
C17_SortOrdersDistinct ==
    [][ /\ \A i, j \in db'.item :
              (i.list_id = j.list_id /\ i.sort_order = j.sort_order) => i.id = j.id
        /\ \A n \in db'.item :
              ~HasItem(db.item, n.id) =>
                  \A o \in db.item : o.list_id = n.list_id => o.sort_order < n.sort_order
      ]_vars

\* An item was added to a list that had lost its first item and kept a later
\* one
C17_Witness ==
    /\ req.op = "items_post"
    /\ resp.status = 201
    /\ \E n, o \in db.item :
          /\ n.id = resp.body[1].id
          /\ n.id = db.seq.item
          /\ o.list_id = n.list_id
          /\ o.sort_order = 1
          /\ n.sort_order = 2
          /\ ~ \E z \in db.item : z.list_id = n.list_id /\ z.sort_order = 0

\* Thread t takes the step from pc `from` to pc `to`
Steps(t, from, to) == pending[t].pc = from /\ pending'[t].pc = to

\* C16: add-item reads the next sort_order of its list in one step and inserts
\* in a later one, with the sort_order it read, whatever was stored in
\* between; the insert adds one row under a new id and leaves the others.
C16_ReadThenInsert ==
    [][ \A t \in Threads :
          /\ Steps(t, "route", "insert") =>
                LET S == ItemsOfSlug(db, pending[t].req.slug)
                IN  /\ db' = db
                    /\ \A i \in S : i.sort_order < pending'[t].value
                    /\ \/ pending'[t].value = 0
                       \/ \E i \in S : i.sort_order = pending'[t].value - 1
          /\ Steps(t, "insert", "select") =>
                /\ db.item \subseteq db'.item
                /\ \E n \in db'.item :
                      /\ db'.item = db.item \cup {n}
                      /\ ~HasItem(db.item, n.id)
                      /\ n.list_id = pending[t].list_id
                      /\ n.sort_order = pending[t].value
      ]_vars

\* Two add-items on one list have interleaved: the list holds two items, of
\* different ids, with one sort_order
C16_Witness ==
    \E i, j \in db.item :
        /\ i.id # j.id
        /\ i.list_id = j.list_id
        /\ i.sort_order = j.sort_order

\* The sum of the non-null prices of the items of a response
RECURSIVE SumBody(_)
SumBody(body) ==
    IF body = <<>> THEN 0
    ELSE (IF Head(body).price = Null THEN 0 ELSE Head(body).price.v) + SumBody(Tail(body))

\* C18: in a list-items response the total_spend is the sum of the non-null
\* prices of the items of that response, whatever other requests did between
\* the handler's two queries.
C18_TotalOfResponse ==
    (req.op = "items_get" /\ resp.status = 200) =>
        resp.total_spend = SumBody(resp.body)

\* C18 as amended: the total query of list-items reads the sum of the non-null
\* prices of the items the list holds then; the response has that sum, rounded
\* to two decimals, as total_spend, and as items those the list holds, with
\* an existing category, at the later items query.
C18_TotalOfTotalQuery ==
    [][ \A t \in Threads :
          /\ Steps(t, "route", "items") =>
                pending'[t].value = PricesOfSlug(db, pending[t].req.slug)
          /\ Steps(t, "items", "idle") =>
                LET S == {i \in ItemsOfSlug(db, pending[t].req.slug) : Joins(db, i)}
                IN  /\ resp'.status = 200
                    /\ resp'.total_spend % 10 = 0
                    /\ resp'.total_spend - pending[t].value \in -4..4
                    /\ Len(resp'.body) = Cardinality(S)
                    /\ \A i \in S : \E k \in 1..Len(resp'.body) :
                          resp'.body[k].id = i.id /\ resp'.body[k].price = i.price
      ]_vars

\* A list-items response with a total_spend of 0 and an item of price 1.25:
\* the item was added between the two queries
C18_Witness ==
    /\ req.op = "items_get"
    /\ resp.status = 200
    /\ resp.total_spend = 0
    /\ Len(resp.body) = 1
    /\ resp.body[1].price = Num(1250)

\* No thread is inside init_db or about to set the flag
InitDone == \A t \in Threads : pending[t].pc \notin {"init_db", "seed", "lists", "set_flag"}

\* C19: when the requests that found the flag unset have run init_db, also
\* interleaved, the store holds five categories and one "Saturday" list.
C19_SeededOnce ==
    (_db_initialized /\ InitDone) =>
        /\ Cardinality(db.category) = 5
        /\ Cardinality({l \in db.shopping_list : l.name = Saturday}) = 1

====
